---------------------------- MODULE Spec2Model ----------------------------
(* Model of xgboost::learner::BoostLearner (src/learner/learner-inl.h).    *)
(*                                                                         *)
(* Floats are held in thousandths (0.5f is 500).  C strings passed as      *)
(* parameter values are sequences of one-character strings, so that atoi,  *)
(* atof and sprintf are computed digit by digit.  Datasets are immutable    *)
(* objects owned by the caller; the learner keeps their identifiers.       *)
EXTENDS Integers, Sequences, FiniteSets, TLC

(***************************************************************************)
(* Bounds of the model                                                     *)
(***************************************************************************)
NumData == 3        \* datasets the caller owns
MaxEvals == 2       \* longest evaluation list passed to SetData
MaxCalls == 4       \* calls of the public interface explored
MaxBindCalls == 3   \* calls explored when only binding and training
MaxThreads == 2     \* largest team of threads running a parallel loop

(***************************************************************************)
(* Program constants                                                       *)
(***************************************************************************)
kLinearSquare == 0
kLogisticNeglik == 1
kLogisticClassify == 2
RecordSize == 76            \* sizeof(ModelParam): float, 2 ints, int[16]
FloatScale == 1000          \* one float unit in thousandths

(***************************************************************************)
(* Datasets (DMatrix): row count, column count, labels                     *)
(***************************************************************************)
NoData == 0                 \* train_ before the first SetData
DataIds == 1 .. NumData

Size(d) == d % 3                        \* rows: 1, 2, 0, 1, ...
NumCol(d) == (2 * d) % 5                \* columns: 2, 4, 1, 3, ...
Labels(d) == [j \in 1 .. Size(d) |-> IF j % 2 = 1 THEN FloatScale ELSE 0]

Max(a, b) == IF a >= b THEN a ELSE b

(***************************************************************************)
(* C strings and the libc conversions the code applies to them             *)
(***************************************************************************)
Digits == <<"0", "1", "2", "3", "4", "5", "6", "7", "8", "9">>

IsDigit(c) == \E k \in 1 .. 10 : Digits[k] = c
DigitVal(c) == (CHOOSE k \in 1 .. 10 : Digits[k] = c) - 1

\* value of the leading run of digits of s from position i, given acc so far
RECURSIVE ParseDigits(_, _, _)
ParseDigits(s, i, acc) ==
  IF i > Len(s) \/ ~IsDigit(s[i]) THEN acc
  ELSE ParseDigits(s, i + 1, 10 * acc + DigitVal(s[i]))

\* position after the leading run of digits of s from position i
RECURSIVE SkipDigits(_, _)
SkipDigits(s, i) ==
  IF i > Len(s) \/ ~IsDigit(s[i]) THEN i ELSE SkipDigits(s, i + 1)

\* atoi: optional sign, then digits; anything else ends the number (0 if none)
Atoi(s) ==
  IF Len(s) > 0 /\ s[1] = "-" THEN 0 - ParseDigits(s, 2, 0)
  ELSE IF Len(s) > 0 /\ s[1] = "+" THEN ParseDigits(s, 2, 0)
  ELSE ParseDigits(s, 1, 0)

\* thousandths given by up to three fraction digits of s from position i
FracMilli(s, i) ==
  LET d(k) == IF i + k <= Len(s) /\ (\A m \in 0 .. k : IsDigit(s[i + m]))
              THEN DigitVal(s[i + k]) ELSE 0
  IN 100 * d(0) + 10 * d(1) + d(2)

\* (float)atof, in thousandths: optional sign, digits, optional fraction
Atof(s) ==
  LET neg == Len(s) > 0 /\ s[1] = "-"
      b == IF Len(s) > 0 /\ s[1] \in {"-", "+"} THEN 2 ELSE 1
      e == SkipDigits(s, b)
      ip == ParseDigits(s, b, 0)
      fp == IF e <= Len(s) /\ s[e] = "." THEN FracMilli(s, e + 1) ELSE 0
      mag == FloatScale * ip + fp
  IN IF neg THEN 0 - mag ELSE mag

\* sprintf("%u") / sprintf("%d") of a non-negative number
RECURSIVE FormatNat(_)
FormatNat(n) ==
  IF n < 10 THEN <<Digits[n + 1]>>
  ELSE FormatNat(n \div 10) \o <<Digits[(n % 10) + 1]>>

\* sprintf("%d")
FormatInt(n) == IF n < 0 THEN <<"-">> \o FormatNat(0 - n) ELSE FormatNat(n)

(***************************************************************************)
(* Float library functions, in thousandths                                 *)
(***************************************************************************)
\* what stands for the infinities and NaN that logf gives outside (0,1)
NotFinite == 0 - 1000000

\* -logf(1.0f/p - 1.0f) for the p in (0,1) that base_score takes here
Logit(p) ==
  CASE p = 500 -> 0
    [] p = 600 -> 405
    [] p = 405 -> 0 - 385
    [] OTHER -> NotFinite

\* 1.0f/(1.0f + expf(-x)) at whole numbers, and between them by interpolation
SigmoidKnot(k) ==
  CASE k <= 0 -> 500 [] k = 1 -> 731 [] k = 2 -> 881 [] k = 3 -> 953
    [] k = 4 -> 982 [] k = 5 -> 993 [] k = 6 -> 998 [] k >= 7 -> 999

SigmoidPos(x) ==
  LET k == x \div FloatScale
      r == x % FloatScale
  IN SigmoidKnot(k) + ((SigmoidKnot(k + 1) - SigmoidKnot(k)) * r) \div FloatScale

\* 1.0f/(1.0f + expf(-x)): exact to the thousandth on the sums of a base score
\* and a whole raw prediction, interpolated elsewhere
Sigmoid(x) ==
  CASE x = 0 - 385 -> 405 [] x = 405 -> 600 [] x = 500 -> 622 [] x = 600 -> 646
    [] x = 615 -> 649 [] x = 1405 -> 803 [] x = 1500 -> 818 [] x = 1600 -> 832
    [] x = 1615 -> 834 [] x = 2405 -> 917 [] x = 2500 -> 924 [] x = 2600 -> 931
    [] x = 2615 -> 932 [] x = 3405 -> 968 [] x = 3500 -> 971 [] x = 3600 -> 973
    [] x = 3615 -> 974
    [] OTHER -> IF x >= 0 THEN SigmoidPos(x) ELSE FloatScale - SigmoidPos(0 - x)

(***************************************************************************)
(* State                                                                   *)
(***************************************************************************)
VARIABLES
  silent,        \* int silent
  train_,        \* const DMatrix *train_ (a dataset id, NoData before SetData)
  evals_,        \* std::vector<DMatrix *> evals_
  evname_,       \* std::vector<std::string> evname_
  eval_preds_,   \* std::vector< std::vector<float> > eval_preds_
  mparam,        \* ModelParam mparam
  base_gbm,      \* gbm::GBTree base_gbm, as far as the learner drives it
  evaluator_,    \* EvalSet evaluator_: the metrics registered, in order
  preds_, grad_, hess_,   \* std::vector<float> preds_, grad_, hess_
  fo,            \* the stream SaveModel wrote, read back by LoadModel
  pc,            \* position inside UpdateOneIter ("idle" between calls)
  done,          \* rows the running parallel loop has completed
  fatal,         \* utils::Error / a failed utils check ended the process
  hist           \* history kept for stating properties; hist.calls bounds the run

vars == <<silent, train_, evals_, evname_, eval_preds_, mparam, base_gbm,
          evaluator_, preds_, grad_, hess_, fo, pc, done, fatal, hist>>

\* the stream before SaveModel wrote to it
NoFile == [saved |-> FALSE, gbm |-> 0, rec |-> <<>>]

\* ModelParam(void)
ModelParamInit ==
  [base_score |-> 500, loss_type |-> 0, num_feature |-> 0, reserved |-> 0]

\* the collaborator before any call: no parameter received, empty ensemble
GBTreeInit ==
  [num_feature |-> <<>>, num_pbuffer |-> <<>>, ntree |-> 0, inited |-> FALSE,
   trainer |-> FALSE]

HistInit ==
  [calls |-> 0,          \* public calls made
   iters |-> 0,          \* UpdateOneIter calls started
   boosts |-> 0,         \* DoBoost calls made
   adjusts |-> 0,        \* probability-to-logit conversions applied
   early |-> FALSE,      \* a round started under a logistic loss on a bias
                         \* neither converted nor loaded
   loaded |-> FALSE,     \* LoadModel replaced the parameters
   full |-> FALSE,       \* LoadModel read a whole record over other values
   cols |-> 0,           \* largest column count bound so far
   lowered |-> FALSE,    \* SetParam("bst:num_feature") lowered num_feature
   inits |-> 0,          \* InitModel calls made
   metrics |-> <<>>,     \* the metrics passed with "eval_metric", in order
   slots |-> {},         \* <<dataset, row, slot>> passed to Predict
   predIter |-> <<>>,    \* per row: the round that wrote preds_[j]
   predTree |-> <<>>,    \* per row: ensemble size its prediction observed
   gradIter |-> <<>>,    \* per row: the round whose preds_[j] grad_[j] read
   nthread |-> 0,        \* threads of the team running this round's loops
   acc |-> {}]           \* <<thread, "r" or "w", array, index>>: the element
                         \* accesses made so far in the running loop

Init ==
  /\ silent = 0
  /\ train_ = NoData
  /\ evals_ = <<>>
  /\ evname_ = <<>>
  /\ eval_preds_ = <<>>
  /\ mparam = ModelParamInit
  /\ base_gbm = GBTreeInit
  /\ evaluator_ = <<>>
  /\ preds_ = <<>>
  /\ grad_ = <<>>
  /\ hess_ = <<>>
  /\ fo = NoFile
  /\ pc = "idle"
  /\ done = {}
  /\ fatal = FALSE
  /\ hist = HistInit

\* a public call can be made: the process lives, no call is running (the
\* learner is driven by one caller; UpdateOneIter on an unbound learner
\* dereferences the uninitialised train_ and is not explored)
CanCall == ~fatal /\ pc = "idle" /\ hist.calls < MaxCalls

(***************************************************************************)
(* Collaborators, as far as the learner drives them                        *)
(***************************************************************************)
\* gbm::GBTree::SetParam: keeps the latest value of the two parameters the
\* learner computes; every other name belongs to the booster's own namespace
GbmSetParam(g, name, val) ==
  IF name = "bst:num_feature" THEN [g EXCEPT !.num_feature = val]
  ELSE IF name = "num_pbuffer" THEN [g EXCEPT !.num_pbuffer = val]
  ELSE g

\* gbm::GBTree::Predict: the raw sum of an ensemble of ntree members, each
\* adding one unit, for the row cached at buffer slot `slot`
GbmPredict(g, d, row, slot) == g.ntree * FloatScale

\* EvalSet::AddEval
AddEval(ev, name) == Append(ev, name)

\* std::vector::resize(n, fill): keeps the first n elements, pads with fill
Resize(v, n, fill) ==
  [i \in 1 .. n |-> IF i <= Len(v) THEN v[i] ELSE fill]

(***************************************************************************)
(* ModelParam                                                              *)
(***************************************************************************)
\* ModelParam::SetParam had it kept the larger of the old and the new
\* num_feature
ModelParamSetParamRaiseOnly(mp, name, val) ==
  LET a == IF name = "base_score" THEN [mp EXCEPT !.base_score = Atof(val)] ELSE mp
      b == IF name = "loss_type" THEN [a EXCEPT !.loss_type = Atoi(val)] ELSE a
      c == IF name = "bst:num_feature"
           THEN [b EXCEPT !.num_feature = Max(@, Atoi(val))] ELSE b
  IN c

\* ModelParam::SetParam had it taken every name of the "bst:" namespace for
\* the feature count
ModelParamSetParamPrefix(mp, name, val) ==
  LET a == IF name = "base_score" THEN [mp EXCEPT !.base_score = Atof(val)] ELSE mp
      b == IF name = "loss_type" THEN [a EXCEPT !.loss_type = Atoi(val)] ELSE a
      c == IF name \in {"bst:num_feature", "bst:eta"}
           THEN [b EXCEPT !.num_feature = Atoi(val)] ELSE b
  IN c

\* ModelParam::SetParam
ModelParamSetParam(mp, name, val) ==
  LET a == IF name = "base_score" THEN [mp EXCEPT !.base_score = Atof(val)] ELSE mp
      b == IF name = "loss_type" THEN [a EXCEPT !.loss_type = Atoi(val)] ELSE a
      c == IF name = "bst:num_feature" THEN [b EXCEPT !.num_feature = Atoi(val)] ELSE b
  IN c

\* ModelParam::AdjustBase: the condition under which the conversion is made
AdjustApplies(mp) == mp.loss_type = 1 \/ mp.loss_type = 2

\* the range check had it tested the lower end only
SigmoidRangeNoUpper(mp) == mp.base_score > 0

\* ModelParam::AdjustBase: the range check guarding the conversion
SigmoidRange(mp) == mp.base_score > 0 /\ mp.base_score < FloatScale

\* ModelParam::AdjustBase: the value stored when the check passes
AdjustBase(mp) ==
  IF AdjustApplies(mp) THEN [mp EXCEPT !.base_score = Logit(mp.base_score)] ELSE mp

\* the switches had their default branch not ended the process
KnownLossAny(t) == TRUE

\* the loss types the three switches know; any other reaches utils::Error
KnownLoss(t) == t \in {kLinearSquare, kLogisticNeglik, kLogisticClassify}

\* ModelParam::PredTransform, for a known loss_type
PredTransform(mp, x) == IF mp.loss_type = kLinearSquare THEN x ELSE Sigmoid(x)

\* the first order gradient with its operands exchanged
FirstOrderGradientSwapped(mp, predt, label) == label - predt

\* ModelParam::FirstOrderGradient, for a known loss_type
FirstOrderGradient(mp, predt, label) == predt - label

\* ModelParam::SecondOrderGradient, for a known loss_type
SecondOrderGradient(mp, predt, label) ==
  IF mp.loss_type = kLinearSquare THEN FloatScale
  ELSE (predt * (FloatScale - predt)) \div FloatScale

(***************************************************************************)
(* BoostLearner::SetData                                                   *)
(***************************************************************************)
SeqsUpTo(S, n) == UNION {[1 .. k -> S] : k \in 0 .. n}

\* the names passed with an evaluation list: n display names
EvalNames(n) == [i \in 1 .. n |-> "eval"]

\* int num_feature after the loop over the first n evaluation sets
RECURSIVE FeatureBound(_, _, _)
FeatureBound(train, evals, n) ==
  IF n = 0 THEN NumCol(train)
  ELSE Max(FeatureBound(train, evals, n - 1), NumCol(evals[n]))

\* buffer_size had the loop not added the evaluation sets
BufferSizeTrainOnly(train, evals, n) == Size(train)

\* unsigned buffer_size after the loop over the first n evaluation sets (the
\* row counts explored stay far below the range of unsigned, so no sum wraps)
RECURSIVE BufferSize(_, _, _)
BufferSize(train, evals, n) ==
  IF n = 0 THEN Size(train)
  ELSE BufferSize(train, evals, n - 1) + Size(evals[n])

\* SetData had it stored the computed bound unconditionally
RaisesFeatureAlways(num_feature, mp) == TRUE

\* the guard under which SetData raises mparam.num_feature
RaisesFeature(num_feature, mp) == num_feature > mp.num_feature

SetData(train, evals, evname) ==
  LET num_feature == FeatureBound(train, evals, Len(evals))
      buffer_size == BufferSize(train, evals, Len(evals))
      raise == RaisesFeature(num_feature, mparam)
      g1 == IF raise
            THEN GbmSetParam(base_gbm, "bst:num_feature", FormatInt(num_feature))
            ELSE base_gbm
  IN /\ CanCall
     /\ train_' = train
     /\ evals_' = evals
     /\ evname_' = evname
     /\ mparam' = IF raise THEN [mparam EXCEPT !.num_feature = num_feature]
                  ELSE mparam
     /\ base_gbm' = GbmSetParam(g1, "num_pbuffer", FormatNat(buffer_size))
     /\ eval_preds_' = Resize(eval_preds_, Len(evals), <<>>)
     /\ hist' = [hist EXCEPT !.calls = @ + 1,
                             !.cols = Max(@, num_feature)]
     /\ UNCHANGED <<silent, evaluator_, preds_, grad_, hess_, fo, pc, done, fatal>>

(***************************************************************************)
(* BoostLearner::SetParam                                                  *)
(***************************************************************************)
\* the (name, value) pairs the caller passes
ParamInputs ==
  { <<"silent", <<"1">> >>,
    <<"eval_metric", <<"a", "u", "c">> >>,
    <<"base_score", <<"0", ".", "6">> >>,
    <<"base_score", <<"1">> >>,
    <<"loss_type", <<"0">> >>,
    <<"loss_type", <<"1">> >>,
    <<"loss_type", <<"2">> >>,
    <<"loss_type", <<"3">> >>,
    <<"bst:num_feature", <<"1">> >>,
    <<"bst:num_feature", <<"3">> >>,
    <<"bst:eta", <<"0", ".", "3">> >> }

SetParam(name, val) ==
  /\ CanCall
  /\ silent' = IF name = "silent" THEN Atoi(val) ELSE silent
  /\ evaluator_' = IF name = "eval_metric" THEN AddEval(evaluator_, val)
                   ELSE evaluator_
  /\ mparam' = ModelParamSetParam(mparam, name, val)
  /\ base_gbm' = GbmSetParam(base_gbm, name, val)
  /\ hist' = [hist EXCEPT !.calls = @ + 1,
                          !.lowered = @ \/ (name = "bst:num_feature"
                                            /\ Atoi(val) < mparam.num_feature),
                          !.metrics = IF name = "eval_metric"
                                      THEN Append(@, val) ELSE @]
  /\ UNCHANGED <<train_, evals_, evname_, eval_preds_, preds_, grad_, hess_,
                 fo, pc, done, fatal>>

(***************************************************************************)
(* BoostLearner::InitTrainer, SaveModel, LoadModel, InitModel              *)
(***************************************************************************)
StrError == <<"e", "r", "r", "o", "r">>
StrRmse == <<"r", "m", "s", "e">>

InitTrainer ==
  /\ CanCall
  /\ base_gbm' = [base_gbm EXCEPT !.trainer = TRUE]
  /\ evaluator_' = IF mparam.loss_type = kLogisticClassify
                   THEN AddEval(evaluator_, StrError)
                   ELSE AddEval(evaluator_, StrRmse)
  /\ hist' = [hist EXCEPT !.calls = @ + 1]
  /\ UNCHANGED <<silent, train_, evals_, evname_, eval_preds_, mparam, preds_,
                 grad_, hess_, fo, pc, done, fatal>>

\* the stream after base_gbm.SaveModel(fo) and fo.Write(&mparam, sizeof)
SaveModel ==
  /\ CanCall
  /\ fo' = [saved |-> TRUE, gbm |-> base_gbm.ntree, rec |-> mparam]
  /\ hist' = [hist EXCEPT !.calls = @ + 1]
  /\ UNCHANGED <<silent, train_, evals_, evname_, eval_preds_, mparam, base_gbm,
                 evaluator_, preds_, grad_, hess_, pc, done, fatal>>

\* the numbers of bytes of the record a stream may still hold
ReadLens == {0, 4, 8, 12, RecordSize}

\* the read had it stopped after the first two fields of the record
ReadIntoTwoFields(mp, rec, n) ==
  [base_score  |-> IF n >= 4 THEN rec.base_score ELSE mp.base_score,
   loss_type   |-> IF n >= 8 THEN rec.loss_type ELSE mp.loss_type,
   num_feature |-> mp.num_feature,
   reserved    |-> mp.reserved]

\* IStream::Read(&mparam, sizeof(ModelParam)) on a stream holding n more bytes:
\* the bytes read land at the start of the record
ReadInto(mp, rec, n) ==
  [base_score  |-> IF n >= 4 THEN rec.base_score ELSE mp.base_score,
   loss_type   |-> IF n >= 8 THEN rec.loss_type ELSE mp.loss_type,
   num_feature |-> IF n >= 12 THEN rec.num_feature ELSE mp.num_feature,
   reserved    |-> IF n >= RecordSize THEN rec.reserved ELSE mp.reserved]

\* IStream::Read's return value: the number of bytes read
ReadCount(n) == IF n < RecordSize THEN n ELSE RecordSize

\* the check LoadModel makes on Read's return value
ReadAccepted(n) == ReadCount(n) # 0

\* LoadModel on the saved stream cut so that n bytes of the record remain;
\* gbmOk: the booster's segment parses
LoadModel(n, gbmOk) ==
  /\ CanCall
  /\ fo.saved
  /\ IF ~gbmOk
     THEN /\ fatal' = TRUE
          /\ UNCHANGED <<mparam, base_gbm>>
     ELSE /\ base_gbm' = [base_gbm EXCEPT !.ntree = fo.gbm]
          /\ mparam' = ReadInto(mparam, fo.rec, n)
          /\ fatal' = ~ReadAccepted(n)
  /\ hist' = [hist EXCEPT !.calls = @ + 1,
                          !.loaded = @ \/ (gbmOk /\ n > 0),
                          !.full = @ \/ (gbmOk /\ n = RecordSize
                                          /\ mparam.num_feature # fo.rec.num_feature)]
  /\ UNCHANGED <<silent, train_, evals_, evname_, eval_preds_, evaluator_,
                 preds_, grad_, hess_, fo, pc, done>>

InitModel ==
  /\ CanCall
  /\ base_gbm' = [base_gbm EXCEPT !.inited = TRUE]
  /\ IF AdjustApplies(mparam) /\ ~SigmoidRange(mparam)
     THEN /\ fatal' = TRUE
          /\ UNCHANGED mparam
     ELSE /\ mparam' = AdjustBase(mparam)
          /\ UNCHANGED fatal
  /\ hist' = [hist EXCEPT !.calls = @ + 1,
                          !.inits = @ + 1,
                          !.adjusts = IF AdjustApplies(mparam) /\ SigmoidRange(mparam)
                                      THEN @ + 1 ELSE @]
  /\ UNCHANGED <<silent, train_, evals_, evname_, eval_preds_, evaluator_,
                 preds_, grad_, hess_, fo, pc, done>>

(***************************************************************************)
(* BoostLearner::UpdateOneIter, PredictBuffer, GetGradient                 *)
(***************************************************************************)
\* the rows of a parallel loop over ndata elements
Rows(ndata) == 1 .. ndata

\* the loop had it let the next statement run without waiting
LoopJoinedEarly(ndata, finished) == TRUE

\* the barrier had it never released the calling thread
LoopJoinedNever(ndata, finished) == FALSE

\* the implicit barrier ending an omp parallel for: the statement after the
\* loop runs when every iteration has completed
LoopJoined(ndata, finished) == finished = Rows(ndata)

\* the buffer offset UpdateOneIter passes for the training data
TrainOffset == 0

\* schedule(static): the thread of a team of nthread that runs iteration j of
\* ndata, the iterations being dealt out in contiguous chunks of equal size
Owner(j, ndata, nthread) ==
  LET chunk == (ndata + nthread - 1) \div nthread
  IN (j - 1) \div chunk

\* each iteration had it stored into the first element
OutIndexFirst(j) == 1

\* the element iteration j stores into: preds[j], grad[j], hess[j]
OutIndex(j) == j

\* the accesses to array elements iteration j of PredictBuffer's loop makes
PredictAccess(j) == {<<"w", "preds", OutIndex(j)>>}

\* the accesses to array elements iteration j of GetGradient's loop makes
GradientAccess(j) ==
  {<<"r", "preds", j>>, <<"r", "labels", j>>,
   <<"w", "grad", OutIndex(j)>>, <<"w", "hess", OutIndex(j)>>}

\* the accesses in A, made by thread t
By(t, A) == {<<t, a[1], a[2], a[3]>> : a \in A}

\* UpdateOneIter is entered; PredictBuffer resizes preds and opens its loop
UpdateOneIter ==
  /\ CanCall
  /\ train_ # NoData
  /\ preds_' = Resize(preds_, Size(train_), 0)
  /\ pc' = "predict"
  /\ done' = {}
  /\ \E t \in 1 .. MaxThreads :
      hist' = [hist EXCEPT !.calls = @ + 1,
                          !.nthread = t,
                          !.acc = {},
                          !.iters = @ + 1,
                          !.early = @ \/ (AdjustApplies(mparam) /\ hist.adjusts = 0
                                           /\ ~hist.loaded),
                          !.predIter = Resize(@, Size(train_), 0),
                          !.predTree = Resize(@, Size(train_), 0)]
  /\ UNCHANGED <<silent, train_, evals_, evname_, eval_preds_, mparam, base_gbm,
                 evaluator_, grad_, hess_, fo, fatal>>

\* one iteration of PredictBuffer's loop, run by some worker (row j is the
\* loop index j - 1)
PredictRow(j) ==
  /\ ~fatal
  /\ pc = "predict"
  /\ j \in Rows(Size(train_)) \ done
  /\ LET slot == TrainOffset + (j - 1)
         raw == GbmPredict(base_gbm, train_, j, slot)
         t == Owner(j, Size(train_), hist.nthread)
     IN /\ hist' = [hist EXCEPT !.slots = @ \cup {<<train_, j, slot>>},
                                !.predIter[j] = hist.iters,
                                !.predTree[j] = base_gbm.ntree,
                                !.acc = IF KnownLoss(mparam.loss_type)
                                        THEN @ \cup By(t, PredictAccess(j)) ELSE @]
        /\ IF KnownLoss(mparam.loss_type)
           THEN /\ preds_' = [preds_ EXCEPT
                                ![OutIndex(j)] =
                                   PredTransform(mparam, mparam.base_score + raw)]
                /\ done' = done \cup {j}
                /\ UNCHANGED fatal
           ELSE /\ fatal' = TRUE
                /\ UNCHANGED <<preds_, done>>
  /\ UNCHANGED <<silent, train_, evals_, evname_, eval_preds_, mparam, base_gbm,
                 evaluator_, grad_, hess_, fo, pc>>

\* PredictBuffer's loop has joined; GetGradient resizes grad and hess and
\* opens its loop
GetGradient ==
  /\ ~fatal
  /\ pc = "predict"
  /\ LoopJoined(Size(train_), done)
  /\ grad_' = Resize(grad_, Len(preds_), 0)
  /\ hess_' = Resize(hess_, Len(preds_), 0)
  /\ pc' = "grad"
  /\ done' = {}
  /\ hist' = [hist EXCEPT !.gradIter = Resize(@, Len(preds_), 0),
                          !.acc = {}]
  /\ UNCHANGED <<silent, train_, evals_, evname_, eval_preds_, mparam, base_gbm,
                 evaluator_, preds_, fo, fatal>>

\* one iteration of GetGradient's loop
GradientRow(j) ==
  /\ ~fatal
  /\ pc = "grad"
  /\ j \in Rows(Len(preds_)) \ done
  /\ hist' = [hist EXCEPT
                !.gradIter[j] = hist.predIter[j],
                !.acc = IF KnownLoss(mparam.loss_type)
                        THEN @ \cup By(Owner(j, Len(preds_), hist.nthread),
                                       GradientAccess(j))
                        ELSE @]
  /\ IF KnownLoss(mparam.loss_type)
     THEN /\ grad_' = [grad_ EXCEPT
                         ![OutIndex(j)] =
                            FirstOrderGradient(mparam, preds_[j], Labels(train_)[j])]
          /\ hess_' = [hess_ EXCEPT
                         ![OutIndex(j)] =
                            SecondOrderGradient(mparam, preds_[j], Labels(train_)[j])]
          /\ done' = done \cup {j}
          /\ UNCHANGED fatal
     ELSE /\ fatal' = TRUE
          /\ UNCHANGED <<grad_, hess_, done>>
  /\ UNCHANGED <<silent, train_, evals_, evname_, eval_preds_, mparam, base_gbm,
                 evaluator_, preds_, fo, pc>>

\* the boosting step had it also reset the slot count the booster was told
DoBoostResetsBuffer ==
  /\ ~fatal
  /\ pc = "grad"
  /\ done = Rows(Len(preds_))
  /\ base_gbm' = [base_gbm EXCEPT !.ntree = @ + 1, !.num_pbuffer = <<"0">>]
  /\ pc' = "idle"
  /\ done' = {}
  /\ hist' = [hist EXCEPT !.boosts = @ + 1, !.nthread = 0, !.acc = {}]
  /\ UNCHANGED <<silent, train_, evals_, evname_, eval_preds_, mparam,
                 evaluator_, preds_, grad_, hess_, fo, fatal>>

\* GetGradient's loop has joined; base_gbm.DoBoost(grad_, hess_, ...) grows
\* one member and UpdateOneIter returns
DoBoost ==
  /\ ~fatal
  /\ pc = "grad"
  /\ LoopJoined(Len(preds_), done)
  /\ base_gbm' = [base_gbm EXCEPT !.ntree = @ + 1]
  /\ pc' = "idle"
  /\ done' = {}
  /\ hist' = [hist EXCEPT !.boosts = @ + 1,
                          !.nthread = 0,
                          !.acc = {}]
  /\ UNCHANGED <<silent, train_, evals_, evname_, eval_preds_, mparam,
                 evaluator_, preds_, grad_, hess_, fo, fatal>>

(***************************************************************************)
(* Specification                                                           *)
(***************************************************************************)
\* the caller binds a training set, evaluation sets and a name for each
BindStep ==
  \E train \in DataIds, evals \in SeqsUpTo(DataIds, MaxEvals) :
    SetData(train, evals, EvalNames(Len(evals)))

\* the caller binds evaluation sets and passes no name for them
UnnamedBindStep ==
  \E train \in DataIds, evals \in SeqsUpTo(DataIds, MaxEvals) \ {<<>>} :
    SetData(train, evals, <<>>)

\* the caller binds a training set alone
TrainStep == \E train \in DataIds : SetData(train, <<>>, <<>>)

ParamStep == \E nv \in ParamInputs : SetParam(nv[1], nv[2])

LoadStep == \E n \in ReadLens, gbmOk \in BOOLEAN : LoadModel(n, gbmOk)

\* the steps inside a running UpdateOneIter call
RoundInner ==
  \/ \E j \in Rows(Size(train_)) : PredictRow(j)
  \/ GetGradient
  \/ \E j \in Rows(Len(preds_)) : GradientRow(j)
  \/ DoBoost

\* the steps of one UpdateOneIter call
RoundStep == UpdateOneIter \/ RoundInner

\* every operation of the learner
Next ==
  \/ BindStep
  \/ UnnamedBindStep
  \/ ParamStep
  \/ InitTrainer
  \/ SaveModel
  \/ LoadStep
  \/ InitModel
  \/ RoundStep

Spec == Init /\ [][Next]_vars

\* binding and training only: every sequence of SetData calls and rounds
NextBind ==
  \/ hist.calls < MaxBindCalls /\ BindStep
  \/ hist.calls < MaxBindCalls /\ UpdateOneIter
  \/ RoundInner

SpecBind == Init /\ [][NextBind]_vars

\* configuration and persistence only, no dataset bound
NextParam ==
  \/ ParamStep
  \/ InitTrainer
  \/ SaveModel
  \/ LoadStep
  \/ InitModel

SpecParam == Init /\ [][NextParam]_vars

\* training on a training set bound without evaluation sets
NextRound ==
  \/ TrainStep
  \/ ParamStep
  \/ InitModel
  \/ RoundStep

SpecRound == Init /\ [][NextRound]_vars

\* the same, with the running call making progress: the calling thread and
\* the team of a parallel loop keep executing while a step of the call is
\* possible (no step of UpdateOneIter waits for anything but the loop's own
\* iterations); whether the caller makes another call is left open
SpecRoundFair == SpecRound /\ WF_vars(RoundInner)

(***************************************************************************)
(* Slot layout of the prediction buffer (spec section 3)                   *)
(***************************************************************************)
\* first slot of evaluation set i in the order [training rows, eval-set-0
\* rows, eval-set-1 rows, ...]; EvalOffset(Len(evals_) + 1) ends the last range
RECURSIVE EvalOffset(_)
EvalOffset(i) ==
  IF i = 1 THEN Size(train_) ELSE EvalOffset(i - 1) + Size(evals_[i - 1])

\* the slots of evaluation set i
EvalRange(i) == {s \in 0 .. EvalOffset(i + 1) - 1 : s >= EvalOffset(i)}

\* the slots of the training rows
TrainRange == {s \in 0 .. Size(train_) - 1 : TRUE}

(***************************************************************************)
(* Claims                                                                  *)
(***************************************************************************)

\* C1: once SetData has bound a training set of R rows and evaluation sets of
\* A0..Ak-1 rows, the num_pbuffer value the booster received reads as
\* R + A0 + ... + Ak-1; every Predict call for training row j (counted from 0)
\* passed slot j, inside [0,R); and the ranges [R + A0+...+Ai-1, R + A0+...+Ai)
\* of the evaluation sets are pairwise disjoint, disjoint from [0,R), of Ai
\* slots each, and together with [0,R) fill exactly the num_pbuffer slots.
C1_SlotLayout ==
  train_ # NoData =>
    LET total == Atoi(base_gbm.num_pbuffer)
        k == Len(evals_)
    IN /\ total = EvalOffset(k + 1)
       /\ \A u \in hist.slots : u[3] = u[2] - 1 /\ u[3] >= 0 /\ u[3] < Size(u[1])
       /\ \A i \in 1 .. k : Cardinality(EvalRange(i)) = Size(evals_[i])
       /\ \A i \in 1 .. k : EvalRange(i) \cap TrainRange = {}
       /\ \A i, m \in 1 .. k : i # m => EvalRange(i) \cap EvalRange(m) = {}
       /\ TrainRange \cup UNION {EvalRange(i) : i \in 1 .. k} = 0 .. total - 1

\* C1 witness: 2 training rows and evaluation sets of 1 and 2 rows are bound,
\* 5 slots were announced, and a round has predicted the training rows
C1_Witness ==
  /\ train_ = 2
  /\ evals_ = <<1, 2>>
  /\ base_gbm.num_pbuffer = <<"5">>
  /\ hist.slots = {<<2, 1, 0>>, <<2, 2, 1>>}
  /\ EvalRange(1) = {2}
  /\ EvalRange(2) = {3, 4}

\* C2: over sequences of SetData calls, mparam.num_feature never decreases and,
\* once a bind was made, equals the largest column count of any training or
\* evaluation set bound so far.
C2_FeatureBoundIsMax ==
  /\ [](train_ # NoData => mparam.num_feature = hist.cols)
  /\ [][mparam.num_feature' >= mparam.num_feature]_vars

\* C2 witness: the sets bound now have fewer columns than sets bound before,
\* and num_feature kept the earlier maximum
C2_Witness ==
  /\ train_ # NoData
  /\ FeatureBound(train_, evals_, Len(evals_)) < hist.cols
  /\ mparam.num_feature = hist.cols


\* a SetParam("bst:num_feature", val) call is made
SetNumFeature(val) == SetParam("bst:num_feature", val)

\* the values passed with "bst:num_feature"
NumFeatureVals == {nv[2] : nv \in {x \in ParamInputs : x[1] = "bst:num_feature"}}

C4_CalibratedOnce == hist.adjusts <= 1 /\ ~hist.early

\* C5 as stated: LoadModel on a stream holding fewer bytes of the ModelParam
\* record than sizeof(ModelParam), a non-zero number included, ends the process.
C5_ShortRecordFatal ==
  [][\A n \in ReadLens, gbmOk \in BOOLEAN :
       (LoadModel(n, gbmOk) /\ n < RecordSize) => fatal']_vars

\* a loss_type none of the three switches knows
UnknownLoss ==
  mparam.loss_type \notin {kLinearSquare, kLogisticNeglik, kLogisticClassify}

\* C6 as stated: with an unknown loss_type DoBoost is never invoked, whatever
\* the number of training rows.
C6_NoBoostUnknownLoss == [][DoBoost => ~UnknownLoss]_vars

\* C6 as amended: with an unknown loss_type and a training set of at least one
\* row, a running round completes no row and never leaves the predict loop
\* (its only step is the one that ends the process), and DoBoost is invoked
\* under an unknown loss_type only for a training set of zero rows.
C6_FatalWithRows ==
  /\ []((UnknownLoss /\ pc # "idle" /\ Size(train_) > 0) =>
          (pc = "predict" /\ done = {}))
  /\ [][(DoBoost /\ UnknownLoss) => Size(train_) = 0]_vars

\* C6 witness: a round on a training set with rows ended the process in the
\* predict loop under loss_type 3
C6_Witness ==
  /\ fatal
  /\ pc = "predict"
  /\ mparam.loss_type = 3
  /\ Size(train_) > 0
  /\ hist.boosts = 0

\* C7: InitModel under loss_type 1 or 2 with base_score <= 0 or >= 1 ends the
\* process and leaves mparam as it was, whatever set base_score, an earlier
\* conversion included.
C7_OutOfRangeFatal ==
  [][(InitModel /\ mparam.loss_type \in {kLogisticNeglik, kLogisticClassify}
        /\ (mparam.base_score <= 0 \/ mparam.base_score >= FloatScale))
       => (fatal' /\ mparam' = mparam)]_vars

\* C7 witness: base_score 0.5 was converted to 0 by a first InitModel and the
\* second InitModel ended the process, base_score still 0
C7_Witness ==
  /\ fatal
  /\ hist.inits = 2
  /\ hist.adjusts = 1
  /\ mparam.loss_type \in {kLogisticNeglik, kLogisticClassify}
  /\ mparam.base_score = 0

\* C8: under loss_type 0 every round makes exactly one DoBoost call, and at
\* that call preds_, grad_ and hess_ have one element per training row with
\* preds_[j] = base_score + the raw prediction of row j at slot j,
\* grad_[j] = preds_[j] - label[j] and hess_[j] = 1.
C8_LinearRound ==
  /\ [](hist.boosts = hist.iters - (IF pc = "idle" THEN 0 ELSE 1))
  /\ [][(DoBoost /\ mparam.loss_type = kLinearSquare) =>
          LET n == Size(train_) IN
          /\ Len(preds_) = n /\ Len(grad_) = n /\ Len(hess_) = n
          /\ \A j \in 1 .. n :
               /\ <<train_, j, j - 1>> \in hist.slots
               /\ preds_[j] = mparam.base_score
                                + GbmPredict(base_gbm, train_, j, j - 1)
               /\ grad_[j] = preds_[j] - Labels(train_)[j]
               /\ hess_[j] = FloatScale
          /\ hist'.boosts = hist.boosts + 1
          /\ pc' = "idle"]_vars

\* C8 witness: one round on the 2-row training set with labels [1,0], bias
\* 0.5 and an empty ensemble has returned
C8_Witness ==
  /\ pc = "idle"
  /\ hist.boosts = 1
  /\ train_ = 2
  /\ mparam.loss_type = kLinearSquare
  /\ preds_ = <<500, 500>>
  /\ grad_ = <<0 - 500, 500>>
  /\ hess_ = <<1000, 1000>>

\* C9 as stated: no buffer slot is ever passed to Predict for rows of two
\* different datasets, however SetData is called again.
C9_SlotsNotReused ==
  \A u, w \in hist.slots : u[3] = w[3] => u[1] = w[1]

\* C10: the gradient loop starts only when every row of this round's predict
\* loop has completed, each gradient read a prediction written in this round,
\* DoBoost starts only when every row of the gradient loop has completed, a
\* round starts only when the DoBoost of the round before has returned, and
\* each prediction observed the ensemble that DoBoost left.
C10_PhasesOrdered ==
  /\ [](pc = "grad" =>
          /\ \A j \in Rows(Size(train_)) :
               hist.predIter[j] = hist.iters /\ hist.predTree[j] = base_gbm.ntree
          /\ \A j \in done : hist.gradIter[j] = hist.iters)
  /\ [](pc # "idle" => hist.boosts = hist.iters - 1)
  /\ [](pc = "predict" => \A j \in done : hist.predTree[j] = hist.boosts)
  /\ [][DoBoost => \A j \in Rows(Size(train_)) : hist.gradIter[j] = hist.iters]_vars

\* C10 witness: the second round has completed both rows of its gradient loop
C10_Witness ==
  /\ pc = "grad"
  /\ hist.iters = 2
  /\ done = {1, 2}
  /\ hist.predTree = <<1, 1>>

ModelParamNames == {"base_score", "loss_type", "bst:num_feature"}

\* C12: SetParam with a name other than base_score, loss_type and
\* bst:num_feature leaves base_score, loss_type, num_feature and the reserved
\* region of mparam as they were, and does not end the process.
C12_OtherNamesIgnored ==
  [][\A nv \in ParamInputs :
       (SetParam(nv[1], nv[2]) /\ nv[1] \notin ModelParamNames) =>
          (mparam' = mparam /\ ~fatal')]_vars

\* C12 witness: "silent" and "eval_metric" were both passed and mparam,
\* changed by another call, holds what that call stored
C12_Witness ==
  /\ silent = 1
  /\ evaluator_ = << <<"a", "u", "c">> >>
  /\ mparam = [ModelParamInit EXCEPT !.num_feature = 3]
  /\ ~fatal

\* PredictBuffer's loop run by one thread in row order: preds after the
\* iterations 1 .. k, starting from v
RECURSIVE SeqPredict(_, _)
SeqPredict(v, k) ==
  IF k = 0 THEN v
  ELSE [SeqPredict(v, k - 1) EXCEPT
          ![OutIndex(k)] =
             PredTransform(mparam,
               mparam.base_score
                 + GbmPredict(base_gbm, train_, k, TrainOffset + (k - 1)))]

\* GetGradient's loop run by one thread in row order: grad after the
\* iterations 1 .. k, starting from v
RECURSIVE SeqGrad(_, _)
SeqGrad(v, k) ==
  IF k = 0 THEN v
  ELSE [SeqGrad(v, k - 1) EXCEPT
          ![OutIndex(k)] = FirstOrderGradient(mparam, preds_[k], Labels(train_)[k])]

\* the same for hess
RECURSIVE SeqHess(_, _)
SeqHess(v, k) ==
  IF k = 0 THEN v
  ELSE [SeqHess(v, k - 1) EXCEPT
          ![OutIndex(k)] = SecondOrderGradient(mparam, preds_[k], Labels(train_)[k])]

\* an array of n elements as resize leaves it when it was empty
Fresh(n) == Resize(<<>>, n, 0)

\* the threads that have written element j of array a in the running loop
Writers(a, j) == {x[1] : x \in {y \in hist.acc : y[2] = "w" /\ y[3] = a /\ y[4] = j}}

\* C13: in the predict and the gradient loop, for every team size and every
\* order in which the iterations complete: no element is accessed by two
\* different threads within one loop when one of the accesses is a write; when
\* a loop has joined, each element of its output arrays was written by
\* exactly one thread; and the arrays then equal those the loop gives when
\* one thread runs its iterations in row order.
C13_RowsIndependent ==
  /\ [](\A x, y \in hist.acc :
          (x[3] = y[3] /\ x[4] = y[4] /\ (x[2] = "w" \/ y[2] = "w")) => x[1] = y[1])
  /\ [][GetGradient =>
          /\ \A j \in Rows(Size(train_)) : Cardinality(Writers("preds", j)) = 1
          /\ preds_ = SeqPredict(Fresh(Size(train_)), Size(train_))]_vars
  /\ [][DoBoost =>
          /\ \A j \in Rows(Size(train_)) :
               /\ Cardinality(Writers("grad", j)) = 1
               /\ Cardinality(Writers("hess", j)) = 1
          /\ grad_ = SeqGrad(Fresh(Size(train_)), Size(train_))
          /\ hess_ = SeqHess(Fresh(Size(train_)), Size(train_))]_vars

\* C13 witness: in the second round two threads have run the two iterations
\* of the gradient loop, the second row first or not, and the loop can join
C13_Witness ==
  /\ pc = "grad"
  /\ hist.iters = 2
  /\ hist.nthread = 2
  /\ done = {1, 2}
  /\ Writers("grad", 1) = {0}
  /\ Writers("grad", 2) = {1}
  /\ grad_ = <<500, 1500>>

\* C14: no step of UpdateOneIter changes mparam, the bound training and
\* evaluation sets and their names, the slot count and the feature count the
\* booster was told, silent, the registered metrics or the evaluation scratch
\* arrays; so after any number of rounds they are what they were before the
\* first.  Only preds_, grad_, hess_ and the ensemble change.
C14_RoundKeepsSetup ==
  [][RoundStep =>
       /\ mparam' = mparam
       /\ train_' = train_ /\ evals_' = evals_ /\ evname_' = evname_
       /\ base_gbm'.num_pbuffer = base_gbm.num_pbuffer
       /\ base_gbm'.num_feature = base_gbm.num_feature
       /\ silent' = silent /\ evaluator_' = evaluator_
       /\ eval_preds_' = eval_preds_]_vars

\* C14 witness: two rounds have returned on 2 training rows bound with one
\* evaluation set of 1 row, and the booster still holds the 3 slots and the
\* 4 features it was told at the bind
C14_Witness ==
  /\ pc = "idle"
  /\ hist.boosts = 2
  /\ base_gbm.ntree = 2
  /\ train_ = 2
  /\ evals_ = <<1>>
  /\ evname_ = <<"eval">>
  /\ base_gbm.num_pbuffer = <<"3">>
  /\ base_gbm.num_feature = <<"4">>
  /\ mparam = [ModelParamInit EXCEPT !.num_feature = 4]

\* C15: every UpdateOneIter call that has started eventually returns or the
\* process has ended; it returns only from DoBoost, after exactly one DoBoost
\* call of its own; and once the process has ended no step is taken, so a
\* failed round is neither resumed nor run again.
C15_RoundCompletes ==
  /\ (pc # "idle") ~> (pc = "idle" \/ fatal)
  /\ [][(pc # "idle" /\ pc' = "idle") =>
          (DoBoost /\ hist'.boosts = hist.boosts + 1
             /\ hist'.boosts = hist.iters)]_vars
  /\ [][~fatal]_vars

\* C15 witness: three rounds were started on a training set of 2 rows and
\* all three have returned, each after its DoBoost
C15_Witness ==
  /\ pc = "idle"
  /\ ~fatal
  /\ Size(train_) = 2
  /\ hist.iters = 3
  /\ hist.boosts = 3

\* the metric InitTrainer derives from loss_type
DefaultMetric(mp) == IF mp.loss_type = kLogisticClassify THEN StrError ELSE StrRmse

\* C16 as stated: InitTrainer registers the metric derived from loss_type
\* ("error" for kLogisticClassify, "rmse" otherwise) only when no metric was
\* passed with "eval_metric"; when some were, the metrics registered after
\* InitTrainer are exactly those passed.
C16_DefaultOnlyWhenNone ==
  [][InitTrainer =>
       IF hist.metrics = <<>>
       THEN evaluator_' = Append(evaluator_, DefaultMetric(mparam))
       ELSE evaluator_' = hist.metrics]_vars

\* C17 as stated: after every SetData call that was accepted, evals_, evname_
\* and eval_preds_ have the same length, and a call passing evaluation sets
\* and names of different lengths is not accepted, so never leaves them bound.
C17_ListsPaired ==
  train_ # NoData =>
    (Len(evals_) = Len(evname_) /\ Len(evals_) = Len(eval_preds_))

\* C18: over SetData and SetParam calls (and rounds), once the booster has
\* been passed a value under "bst:num_feature", the number the latest such
\* value reads as equals mparam.num_feature.
C18_FeatureInSync ==
  base_gbm.num_feature # <<>> =>
    Atoi(base_gbm.num_feature) = mparam.num_feature

\* C18 witness: a bind passed 4, SetParam("bst:num_feature", "1") lowered both
\* to 1 and a later bind of the 4-column set raised both to 4 again
C18_Witness ==
  /\ hist.lowered
  /\ hist.cols = 4
  /\ hist.calls >= 3
  /\ NumCol(train_) = 4
  /\ base_gbm.num_feature = <<"4">>
  /\ mparam.num_feature = 4

=============================================================================
